---- MODULE Spec2Model ----
(***************************************************************************)
(* Model of src/main.py: a CPU/RAM monitor that appends one record per     *)
(* tick to a size-rotated log file (logging.handlers.RotatingFileHandler)  *)
(* and redraws two text gauges on the terminal.                            *)
(*                                                                         *)
(* The rotating handler is stepped at the granularity of its file system   *)
(* operations, because a KeyboardInterrupt (Ctrl+C) is raised between      *)
(* bytecodes and can therefore cut an emit() short at any of these steps,  *)
(* and because any OSError raised inside emit() is caught there and given  *)
(* to Handler.handleError, which reports on stderr and returns.            *)
(*                                                                         *)
(* Sizes are scaled: a file is a sequence of bytes, each byte carrying the *)
(* id of the record it belongs to; a record of length n is n such bytes.   *)
(* Percentages are integers counting hundredths of a percent.              *)
(***************************************************************************)
EXTENDS Integers, Sequences, FiniteSets, TLC

(* ----------------------------- configuration -------------------------- *)
\* main.py:13
SAMPLING_INTERVAL_SECONDS == 1
\* main.py:14, scaled from 5 * 1024 * 1024 bytes to a handful of bytes
MAX_LOG_FILE_SIZE_BYTES == 6
\* main.py:15
BACKUP_COUNT == 3
\* main.py:18
BAR_WIDTH == 35
\* main.py:19-20
FILLED_CHAR == "F"
EMPTY_CHAR == "E"

\* bounds of the model
MaxTicks == 5        \* iterations of the sampling loop in one run
MaxIOErrors == 1     \* OSErrors the file system raises in one run
MaxWidth == 3        \* gauge widths 0..MaxWidth are tried besides BAR_WIDTH
MaxWork == 3         \* longest time, in half seconds, a tick works before its sleep

\* psutil readings drawn by a tick, in hundredths of a percent
SampleCpu == {1250, 10000}
SampleMem == {4275}

\* time is counted in half seconds: the update_interval_secs of main.py:62 as
\* __main__ passes it (line 150), and the times a tick can take to read the
\* metrics, append the record and render (lines 76-112)
Interval == 2 * SAMPLING_INTERVAL_SECONDS
WorkTimes == 0..MaxWork

\* length in (scaled) bytes of the formatted line of a record, newline included:
\* main.py:11 LOG_FORMAT around the messages of lines 66, 87-91, 121 and 126.
\* "CPU: 100.0%" is longer than "CPU: 12.5%"; the error record carries a traceback.
RecordLen(kind, cpu) ==
  CASE kind = "started" -> 2
    [] kind = "tick"    -> IF cpu >= 10000 THEN 3 ELSE 2
    [] kind = "stopped" -> 2
    [] kind = "error"   -> 4

Files == 0..BACKUP_COUNT   \* 0 is the active file, i >= 1 is "<LOG_FILE>.i"

VARIABLES
  pc,         \* position of the main thread in __main__ / watch_and_log
  hpc,        \* position inside RotatingFileHandler.emit, "idle" outside it
  shiftI,     \* loop variable i of doRollover
  stream,     \* TRUE iff the handler holds an open stream on the active file
  exists,     \* set of files present in the log directory
  data,       \* data[f]: bytes of file f (<<>> when absent)
  recs,       \* recs[id]: the record created by the id-th logger call
  written,    \* ids of the records whose write succeeded, in order
  lost,       \* ids of the records whose emit ended in handleError
  cut,        \* ids of the records whose emit was cut short by KeyboardInterrupt
  cpu, mem,   \* the readings of the current tick
  term,       \* last thing sent to the terminal: "nl" or "gauge"
  display,    \* the gauge line last drawn
  ticks,      \* iterations of the loop started
  renders,    \* gauge lines drawn
  warmups,    \* warm-up calls made
  exitCode,   \* -1 while running, else the exit status of the process
  ioErrors,   \* OSErrors raised so far
  aborted,    \* TRUE once a doRollover was left unfinished
  rotations,  \* times the active file was renamed to generation 1
  discarded,  \* ids of the bytes removed with a deleted backup
  interrupted,\* "no", or the phase the KeyboardInterrupt hit: "init" or "running"
  intAt,      \* the step the KeyboardInterrupt hit ("no" if none was raised)
  failedAt,   \* where the exception that ended the run was raised ("no" if none)
  opens,      \* file objects the handler has opened on the active file
  closes,     \* file objects the handler has closed
  elapsed,    \* time the current tick spent before its sleep, in half seconds
  sleptFor,   \* length of the sleep that ended the current tick, in half seconds
  barW, barP, barOut, barPrevP, barPrevOut   \* inputs and results of make_that_bar

svars == <<pc, hpc, shiftI, stream, exists, data, recs, written, lost, cut, cpu, mem,
           term, display, ticks, renders, warmups, exitCode, ioErrors, aborted,
           rotations, discarded, interrupted, intAt, failedAt,
           opens, closes, elapsed, sleptFor>>
hvars == <<opens, closes>>
tvars == <<elapsed, sleptFor>>
bvars == <<barW, barP, barOut, barPrevP, barPrevOut>>
vars == <<svars, hvars, tvars, bvars>>

(* ------------------------------ make_that_bar ------------------------- *)
Max2(a, b) == IF a >= b THEN a ELSE b
Min2(a, b) == IF a <= b THEN a ELSE b

\* str * n of Python: the empty string when n <= 0
Repeat(c, n) == [i \in 1..n |-> c]

\* f"{x:.1f}" for x given in hundredths: the value in tenths, ties to even
\* (exact for the multiples of 0.25 the model draws, which are binary fractions)
Format1f(h) ==
  LET q == h \div 10
      r == h % 10
  IN  IF r < 5 THEN q
      ELSE IF r > 5 THEN q + 1
      ELSE IF q % 2 = 0 THEN q ELSE q + 1

\* a clamp that forgets the lower limit
ClampUpperOnly(percentage) == Min2(10000, percentage)

\* main.py:55  percentage = max(0, min(100, float(percentage)))
Clamp(percentage) == Max2(0, Min2(10000, percentage))

\* the filled length taken from the free share instead of the used share
FilledLenInverted(width, percentage) == (width * (10000 - percentage)) \div 10000

\* main.py:56  filled_part_length = int(width * percentage / 100)
FilledLen(width, percentage) == (width * percentage) \div 10000

\* a bar that pads with the whole width of empty glyphs
BarItselfPadded(width, n) == Repeat(FILLED_CHAR, n) \o Repeat(EMPTY_CHAR, width)

\* main.py:58  filled_char * n + empty_char * (width - n)
BarItself(width, n) == Repeat(FILLED_CHAR, n) \o Repeat(EMPTY_CHAR, width - n)

\* main.py:52-59; the result is the string as a sequence of tokens:
\* "[", the glyphs, "]", " ", the digits of the number to one decimal, "%"
make_that_bar(percentage, width) ==
  LET p == Clamp(percentage)
      n == FilledLen(width, p)
  IN  <<"[">> \o BarItself(width, n) \o <<"]", " ", ToString(Format1f(p)), "%">>

(* ------------------------------ file helpers -------------------------- *)
Size(f) == Len(data[f])
Bytes(id) == Repeat(id, recs[id].len)
InRollover == hpc \in {"close", "shift_rm", "shift_mv", "rot_rm", "rot_mv", "open"}

\* a driver that goes back into the loop after the stopped record
AfterLogResume(p) ==
  CASE p = "log_started" -> "warmup"
    [] p = "log_tick"    -> "render"
    [] p = "log_stopped" -> "sample"
    [] p = "log_error"   -> "finally"

\* where the main thread continues when the logger call it is in returns
AfterLog(p) ==
  CASE p = "log_started" -> "warmup"
    [] p = "log_tick"    -> "render"
    [] p = "log_stopped" -> "finally"
    [] p = "log_error"   -> "finally"

\* Logger.info / Logger.error up to the entry of the handler's emit
CallLogger(kind, c) ==
  /\ recs' = Append(recs, [kind |-> kind, len |-> RecordLen(kind, c)])
  /\ hpc' = "should"

(* ------------------------------- __main__ ----------------------------- *)
Init ==
  /\ pc = "setup" /\ hpc = "idle" /\ shiftI = 0 /\ stream = FALSE
  /\ exists = {} /\ data = [f \in Files |-> <<>>]
  /\ recs = <<>> /\ written = <<>> /\ lost = {} /\ cut = {}
  /\ cpu = 0 /\ mem = 0 /\ term = "nl" /\ display = <<>> /\ elapsed = 0 /\ sleptFor = 0
  /\ ticks = 0 /\ renders = 0 /\ warmups = 0 /\ exitCode = -1 /\ opens = 0 /\ closes = 0
  /\ ioErrors = 0 /\ aborted = FALSE /\ rotations = 0 /\ discarded = {}
  /\ interrupted = "no" /\ intAt = "no" /\ failedAt = "no"
  /\ barW = 0 /\ barP = 0 /\ barOut = <<>> /\ barPrevP = 0 /\ barPrevOut = <<>>

\* main.py:23-49: the directory is made, the handler opens the file for append
SetupFileLogger ==
  /\ pc = "setup"
  /\ pc' = "start"
  /\ stream' = TRUE
  /\ exists' = exists \cup {0}
  /\ opens' = opens + 1 /\ closes' = closes
  /\ UNCHANGED <<hpc, shiftI, data, recs, written, lost, cut, cpu, mem, term, display,
                 ticks, renders, warmups, exitCode, ioErrors, aborted, rotations,
                 discarded, interrupted, intAt, failedAt, tvars, bvars>>

\* main.py:29/38: os.makedirs or the open raises; nothing catches it in __main__
SetupFails ==
  /\ pc = "setup"
  /\ ioErrors < MaxIOErrors
  /\ ioErrors' = ioErrors + 1
  /\ pc' = "atexit"
  /\ exitCode' = 1
  /\ failedAt' = "setup"
  /\ UNCHANGED <<hpc, shiftI, stream, exists, data, recs, written, lost, cut, cpu, mem,
                 term, display, ticks, renders, warmups, aborted, rotations,
                 discarded, interrupted, intAt, hvars, tvars, bvars>>

\* main.py:64-66: two prints, then file_logger_instance.info("Monitoring started.")
LogStarted ==
  /\ pc = "start"
  /\ pc' = "log_started"
  /\ term' = "nl"
  /\ CallLogger("started", 0)
  /\ UNCHANGED <<shiftI, stream, exists, data, written, lost, cut, cpu, mem, display,
                 ticks, renders, warmups, exitCode, ioErrors, aborted, rotations,
                 discarded, interrupted, intAt, failedAt, hvars, tvars, bvars>>

\* main.py:70: psutil.cpu_percent(interval=0.1)
WarmUp ==
  /\ pc = "warmup" /\ hpc = "idle"
  /\ pc' = "pause"
  /\ warmups' = warmups + 1
  /\ UNCHANGED <<hpc, shiftI, stream, exists, data, recs, written, lost, cut, cpu, mem,
                 term, display, ticks, renders, exitCode, ioErrors, aborted, rotations,
                 discarded, interrupted, intAt, failedAt, hvars, tvars, bvars>>

\* main.py:70 raises: the call is outside the try of line 73, so the exception
\* leaves watch_and_log and __main__ and the interpreter exits with status 1
WarmUpFails ==
  /\ pc = "warmup" /\ hpc = "idle"
  /\ pc' = "atexit"
  /\ exitCode' = 1
  /\ failedAt' = "warmup"
  /\ UNCHANGED <<hpc, shiftI, stream, exists, data, recs, written, lost, cut, cpu, mem,
                 term, display, ticks, renders, warmups, ioErrors, aborted, rotations,
                 discarded, interrupted, intAt, hvars, tvars, bvars>>

\* main.py:71: time.sleep(0.1)
Pause ==
  /\ pc = "pause"
  /\ pc' = "sample"
  /\ UNCHANGED <<hpc, shiftI, stream, exists, data, recs, written, lost, cut, cpu, mem,
                 term, display, ticks, renders, warmups, exitCode, ioErrors, aborted,
                 rotations, discarded, interrupted, intAt, failedAt, hvars, tvars, bvars>>

\* main.py:76-92: read CPU and RAM, format log_entry, file_logger_instance.info
Sample ==
  /\ pc = "sample"
  /\ ticks < MaxTicks
  /\ \E c \in SampleCpu, m \in SampleMem :
       /\ cpu' = c /\ mem' = m
       /\ CallLogger("tick", c)
  /\ ticks' = ticks + 1
  /\ elapsed' = 0 /\ sleptFor' = 0
  /\ pc' = "log_tick"
  /\ UNCHANGED <<shiftI, stream, exists, data, written, lost, cut, term, display,
                 renders, warmups, exitCode, ioErrors, aborted, rotations, discarded,
                 interrupted, intAt, failedAt, hvars, bvars>>

\* main.py:76/79 raises (psutil error): caught by "except Exception" of line 122
SampleFails ==
  /\ pc = "sample"
  /\ pc' = "failed"
  /\ failedAt' = "sample"
  /\ UNCHANGED <<hpc, shiftI, stream, exists, data, recs, written, lost, cut, cpu, mem,
                 term, display, ticks, renders, warmups, exitCode, ioErrors, aborted,
                 rotations, discarded, interrupted, intAt, hvars, tvars, bvars>>

\* main.py:95-112: both bars, "\r" + line + padding, no newline
Render ==
  /\ pc = "render" /\ hpc = "idle"
  /\ display' = <<"CPU : ">> \o make_that_bar(cpu, BAR_WIDTH)
                \o <<"   RAM : ">> \o make_that_bar(mem, BAR_WIDTH)
  /\ term' = "gauge"
  /\ renders' = renders + 1
  /\ pc' = "sleep"
  /\ UNCHANGED <<hpc, shiftI, stream, exists, data, recs, written, lost, cut, cpu, mem,
                 ticks, warmups, exitCode, ioErrors, aborted, rotations, discarded,
                 interrupted, intAt, failedAt, hvars, tvars, bvars>>

\* a sleep for what is left of the interval after the tick's work
SleepTimeRemaining(interval, work) == Max2(0, interval - work)

\* main.py:115: the argument of time.sleep is update_interval_secs itself
SleepTime(interval, work) == interval

\* main.py:115: time.sleep(update_interval_secs), then the next iteration; the
\* tick has by then worked for some time (lines 76-112)
Sleep ==
  /\ pc = "sleep"
  /\ \E w \in WorkTimes :
       /\ elapsed' = w
       /\ sleptFor' = SleepTime(Interval, w)
  /\ pc' = "sample"
  /\ UNCHANGED <<hpc, shiftI, stream, exists, data, recs, written, lost, cut, cpu, mem,
                 term, display, ticks, renders, warmups, exitCode, ioErrors, aborted,
                 rotations, discarded, interrupted, intAt, failedAt, hvars, bvars>>

RunningPcs == {"sample", "log_tick", "render", "sleep"}
InitPcs == {"start", "log_started", "warmup", "pause"}

\* Ctrl+C while the main thread is inside the try of lines 73-115: the
\* KeyboardInterrupt unwinds whatever is running, an emit included (it is not an
\* Exception, so emit's "except Exception" lets it through), to line 117
Interrupt ==
  /\ pc \in RunningPcs
  /\ interrupted' = "running"
  /\ intAt' = IF hpc = "idle" THEN pc ELSE hpc
  /\ pc' = "stopping"
  /\ hpc' = "idle"
  /\ cut' = IF hpc = "idle" THEN cut ELSE cut \cup {Len(recs)}
  /\ aborted' = (aborted \/ InRollover)
  /\ UNCHANGED <<shiftI, stream, exists, data, recs, written, lost, cpu, mem, term,
                 display, ticks, renders, warmups, exitCode, ioErrors, rotations,
                 discarded, failedAt, hvars, tvars, bvars>>

\* Ctrl+C on lines 64-71, outside the try: nothing handles the KeyboardInterrupt,
\* the interpreter prints the traceback and ends with the SIGINT status
InterruptInit ==
  /\ pc \in InitPcs
  /\ interrupted' = "init"
  /\ intAt' = IF hpc = "idle" THEN pc ELSE hpc
  /\ pc' = "atexit"
  /\ hpc' = "idle"
  /\ cut' = IF hpc = "idle" THEN cut ELSE cut \cup {Len(recs)}
  /\ aborted' = (aborted \/ InRollover)
  /\ exitCode' = 130
  /\ term' = "nl"
  /\ UNCHANGED <<shiftI, stream, exists, data, recs, written, lost, cpu, mem,
                 display, ticks, renders, warmups, ioErrors, rotations,
                 discarded, failedAt, hvars, tvars, bvars>>

\* an interrupt handler that cleans the terminal up but logs nothing
StoppingSilent ==
  /\ pc = "stopping"
  /\ term' = "nl"
  /\ pc' = "finally"
  /\ UNCHANGED <<hpc, recs, shiftI, stream, exists, data, written, lost, cut, cpu, mem,
                 display, ticks, renders, warmups, exitCode, ioErrors, aborted,
                 rotations, discarded, interrupted, intAt, failedAt, hvars, tvars, bvars>>

\* main.py:117-121: newline, print, file_logger_instance.info("Monitoring stopped by user.")
Stopping ==
  /\ pc = "stopping"
  /\ term' = "nl"
  /\ CallLogger("stopped", 0)
  /\ pc' = "log_stopped"
  /\ UNCHANGED <<shiftI, stream, exists, data, written, lost, cut, cpu, mem, display,
                 ticks, renders, warmups, exitCode, ioErrors, aborted, rotations,
                 discarded, interrupted, intAt, failedAt, hvars, tvars, bvars>>

\* main.py:122-126: newline, print, file_logger_instance.error(..., exc_info=True)
Failed ==
  /\ pc = "failed"
  /\ term' = "nl"
  /\ CallLogger("error", 0)
  /\ pc' = "log_error"
  /\ UNCHANGED <<shiftI, stream, exists, data, written, lost, cut, cpu, mem, display,
                 ticks, renders, warmups, exitCode, ioErrors, aborted, rotations,
                 discarded, interrupted, intAt, failedAt, hvars, tvars, bvars>>

\* main.py:127-129 and the end of the script at line 150: a newline, then
\* watch_and_log returns normally and the interpreter ends with status 0
Finally ==
  /\ pc = "finally" /\ hpc = "idle"
  /\ term' = "nl"
  /\ exitCode' = 0
  /\ pc' = "atexit"
  /\ UNCHANGED <<hpc, shiftI, stream, exists, data, recs, written, lost, cut, cpu, mem,
                 display, ticks, renders, warmups, ioErrors, aborted, rotations,
                 discarded, interrupted, intAt, failedAt, hvars, tvars, bvars>>

\* an interpreter shutdown that leaves the handler's stream open
AtExitLeak ==
  /\ pc = "atexit"
  /\ pc' = "done"
  /\ UNCHANGED <<hpc, shiftI, stream, exists, data, recs, written, lost, cut, cpu, mem,
                 term, display, ticks, renders, warmups, exitCode, ioErrors, aborted,
                 rotations, discarded, interrupted, intAt, failedAt, hvars, tvars, bvars>>

\* interpreter shutdown: logging.shutdown (atexit) flushes and closes the handler
\* (FileHandler.close: if self.stream: flush, close, self.stream = None)
AtExit ==
  /\ pc = "atexit"
  /\ stream' = FALSE
  /\ closes' = (IF stream THEN closes + 1 ELSE closes) /\ opens' = opens
  /\ pc' = "done"
  /\ UNCHANGED <<hpc, shiftI, exists, data, recs, written, lost, cut, cpu, mem, term,
                 display, ticks, renders, warmups, exitCode, ioErrors, aborted,
                 rotations, discarded, interrupted, intAt, failedAt, tvars, bvars>>

(* ---------------- logging.handlers.RotatingFileHandler ---------------- *)
\* a size check that lets the file reach the limit exactly
RolloverNeededStrict(pos, len) == pos + len > MAX_LOG_FILE_SIZE_BYTES

\* shouldRollover: tell() + len(msg) >= maxBytes
RolloverNeeded(pos, len) == pos + len >= MAX_LOG_FILE_SIZE_BYTES

\* doRollover: for i in range(backupCount - 1, 0, -1)
FirstShift == BACKUP_COUNT - 1

\* a rename that leaves the source in place (a copy)
RenamedCopy(d, s, t) == [d EXCEPT ![t] = d[s]]

\* os.rename(s, t): t takes the content of s, s is gone
Renamed(d, s, t) == [d EXCEPT ![t] = d[s], ![s] = <<>>]

\* a write that lets the size limit fall inside the record: the first byte still
\* goes to the file just rotated out, the rest to the fresh active file
WrittenSplit(d, id) ==
  IF d[0] = <<>> /\ d[1] # <<>> /\ recs[id].len > 1
  THEN [d EXCEPT ![1] = @ \o <<id>>, ![0] = Tail(Bytes(id))]
  ELSE [d EXCEPT ![0] = @ \o Bytes(id)]

\* StreamHandler.emit: stream.write(msg + terminator); flush()
Written(d, id) == [d EXCEPT ![0] = @ \o Bytes(id)]

\* the set of record ids that have a byte in the sequence s
IdsOf(s) == {s[k] : k \in 1..Len(s)}

\* emit -> shouldRollover: reopen a closed stream, then compare the sizes
ShouldRollover ==
  /\ hpc = "should"
  /\ stream' = TRUE
  /\ exists' = exists \cup {0}
  /\ hpc' = IF RolloverNeeded(Size(0), recs[Len(recs)].len) THEN "close" ELSE "write"
  /\ opens' = (IF stream THEN opens ELSE opens + 1) /\ closes' = closes
  /\ UNCHANGED <<pc, shiftI, data, recs, written, lost, cut, cpu, mem, term, display,
                 ticks, renders, warmups, exitCode, ioErrors, aborted, rotations,
                 discarded, interrupted, intAt, failedAt, tvars, bvars>>

\* doRollover: self.stream.close(); self.stream = None; entry of the loop
DoRolloverClose ==
  /\ hpc = "close"
  /\ stream' = FALSE
  /\ shiftI' = FirstShift
  /\ hpc' = IF BACKUP_COUNT > 0
            THEN (IF FirstShift >= 1 THEN "shift_rm" ELSE "rot_rm")
            ELSE "open"
  /\ closes' = closes + 1 /\ opens' = opens
  /\ UNCHANGED <<pc, exists, data, recs, written, lost, cut, cpu, mem, term, display,
                 ticks, renders, warmups, exitCode, ioErrors, aborted, rotations,
                 discarded, interrupted, intAt, failedAt, tvars, bvars>>

\* doRollover, loop body, first half:
\*   if os.path.exists(sfn): if os.path.exists(dfn): os.remove(dfn)
\* (an iteration whose sfn is absent does nothing and the loop moves on)
DoRolloverShiftRemove ==
  /\ hpc = "shift_rm"
  /\ IF shiftI \in exists
     THEN /\ hpc' = "shift_mv"
          /\ shiftI' = shiftI
          /\ IF shiftI + 1 \in exists
             THEN /\ exists' = exists \ {shiftI + 1}
                  /\ data' = [data EXCEPT ![shiftI + 1] = <<>>]
                  /\ discarded' = discarded \cup IdsOf(data[shiftI + 1])
             ELSE UNCHANGED <<exists, data, discarded>>
     ELSE /\ shiftI' = shiftI - 1
          /\ hpc' = IF shiftI - 1 >= 1 THEN "shift_rm" ELSE "rot_rm"
          /\ UNCHANGED <<exists, data, discarded>>
  /\ UNCHANGED <<pc, stream, recs, written, lost, cut, cpu, mem, term, display,
                 ticks, renders, warmups, exitCode, ioErrors, aborted, rotations,
                 interrupted, intAt, failedAt, hvars, tvars, bvars>>

\* doRollover, loop body, second half: os.rename(sfn, dfn)
DoRolloverShiftRename ==
  /\ hpc = "shift_mv"
  /\ data' = Renamed(data, shiftI, shiftI + 1)
  /\ exists' = (exists \ {shiftI}) \cup {shiftI + 1}
  /\ shiftI' = shiftI - 1
  /\ hpc' = IF shiftI - 1 >= 1 THEN "shift_rm" ELSE "rot_rm"
  /\ UNCHANGED <<pc, stream, recs, written, lost, cut, cpu, mem, term, display,
                 ticks, renders, warmups, exitCode, ioErrors, aborted, rotations,
                 discarded, interrupted, intAt, failedAt, hvars, tvars, bvars>>

\* doRollover: dfn = baseFilename + ".1"; if os.path.exists(dfn): os.remove(dfn)
DoRolloverRemoveFirst ==
  /\ hpc = "rot_rm"
  /\ IF 1 \in exists
     THEN /\ exists' = exists \ {1}
          /\ data' = [data EXCEPT ![1] = <<>>]
          /\ discarded' = discarded \cup IdsOf(data[1])
     ELSE UNCHANGED <<exists, data, discarded>>
  /\ hpc' = "rot_mv"
  /\ UNCHANGED <<pc, shiftI, stream, recs, written, lost, cut, cpu, mem, term, display,
                 ticks, renders, warmups, exitCode, ioErrors, aborted, rotations,
                 interrupted, intAt, failedAt, hvars, tvars, bvars>>

\* doRollover: self.rotate(baseFilename, dfn), i.e. os.rename if the source exists
DoRolloverRotate ==
  /\ hpc = "rot_mv"
  /\ IF 0 \in exists
     THEN /\ data' = Renamed(data, 0, 1)
          /\ exists' = (exists \ {0}) \cup {1}
          /\ rotations' = rotations + 1
     ELSE UNCHANGED <<exists, data, rotations>>
  /\ hpc' = "open"
  /\ UNCHANGED <<pc, shiftI, stream, recs, written, lost, cut, cpu, mem, term, display,
                 ticks, renders, warmups, exitCode, ioErrors, aborted,
                 discarded, interrupted, intAt, failedAt, hvars, tvars, bvars>>

\* doRollover: if not self.delay: self.stream = self._open()   (mode "a")
DoRolloverOpen ==
  /\ hpc = "open"
  /\ stream' = TRUE
  /\ exists' = exists \cup {0}
  /\ hpc' = "write"
  /\ opens' = opens + 1 /\ closes' = closes
  /\ UNCHANGED <<pc, shiftI, data, recs, written, lost, cut, cpu, mem, term, display,
                 ticks, renders, warmups, exitCode, ioErrors, aborted, rotations,
                 discarded, interrupted, intAt, failedAt, tvars, bvars>>

\* FileHandler.emit / StreamHandler.emit: the whole line in one write, then flush;
\* the logger call returns to the main thread
Write ==
  /\ hpc = "write"
  /\ stream' = TRUE
  /\ exists' = exists \cup {0}
  /\ data' = Written(data, Len(recs))
  /\ written' = Append(written, Len(recs))
  /\ hpc' = "idle"
  /\ pc' = AfterLog(pc)
  /\ UNCHANGED <<shiftI, recs, lost, cut, cpu, mem, term, display,
                 ticks, renders, warmups, exitCode, ioErrors, aborted, rotations,
                 discarded, interrupted, intAt, failedAt, hvars, tvars, bvars>>

\* the steps of emit that call into the file system, where an OSError can arise
DoesIO ==
  CASE hpc = "should"   -> ~stream
    [] hpc = "shift_rm" -> shiftI \in exists /\ shiftI + 1 \in exists
    [] hpc = "shift_mv" -> TRUE
    [] hpc = "rot_rm"   -> 1 \in exists
    [] hpc = "rot_mv"   -> 0 \in exists
    [] hpc = "open"     -> TRUE
    [] hpc = "write"    -> TRUE
    [] OTHER            -> FALSE

\* emit: "except Exception: self.handleError(record)". handleError prints the
\* traceback on stderr and returns, so the logger call returns normally to the
\* main thread; the record is not in the file
HandleError ==
  /\ DoesIO
  /\ ioErrors < MaxIOErrors
  /\ ioErrors' = ioErrors + 1
  /\ lost' = lost \cup {Len(recs)}
  /\ aborted' = (aborted \/ InRollover)
  /\ hpc' = "idle"
  /\ pc' = AfterLog(pc)
  /\ UNCHANGED <<shiftI, stream, exists, data, recs, written, cut, cpu, mem, term,
                 display, ticks, renders, warmups, exitCode, rotations,
                 discarded, interrupted, intAt, failedAt, hvars, tvars, bvars>>

(* ------------------------------ specification ------------------------- *)
Next ==
  \/ SetupFileLogger \/ SetupFails \/ LogStarted \/ WarmUp \/ WarmUpFails \/ Pause
  \/ Sample \/ SampleFails \/ Render \/ Sleep
  \/ Interrupt \/ InterruptInit \/ Stopping \/ Failed \/ Finally \/ AtExit
  \/ ShouldRollover \/ DoRolloverClose \/ DoRolloverShiftRemove
  \/ DoRolloverShiftRename \/ DoRolloverRemoveFirst \/ DoRolloverRotate
  \/ DoRolloverOpen \/ Write \/ HandleError

Spec == Init /\ [][Next]_vars

TypeOK ==
  /\ pc \in {"setup", "start", "log_started", "warmup", "pause", "sample", "log_tick",
             "render", "sleep", "stopping", "log_stopped", "failed", "log_error",
             "finally", "atexit", "done"}
  /\ hpc \in {"idle", "should", "close", "shift_rm", "shift_mv", "rot_rm", "rot_mv",
              "open", "write"}
  /\ exists \subseteq Files
  /\ \A f \in Files : f \notin exists => data[f] = <<>>
  /\ hpc # "idle" => pc \in {"log_started", "log_tick", "log_stopped", "log_error"}
  /\ opens \in 0..(MaxTicks + 4) /\ closes \in 0..opens
  /\ elapsed \in WorkTimes /\ sleptFor \in 0..Interval

(* --------------------- make_that_bar on its own ----------------------- *)
\* the percentages tried: -50.00 .. 150.00 in steps of 1.25
Percents == {125 * k : k \in -40..120}
Widths == (0..MaxWidth) \cup {BAR_WIDTH}

InitBar ==
  /\ Init!1 /\ Init!2 /\ Init!3 /\ Init!4 /\ Init!5 /\ Init!6 /\ Init!7
  /\ barW \in Widths /\ barP \in Percents /\ barPrevP = barP
  /\ barOut = <<>> /\ barPrevOut = <<>>

\* make_that_bar(barP, barW, FILLED_CHAR, EMPTY_CHAR)
BarRender ==
  /\ barOut = <<>>
  /\ barOut' = make_that_bar(barP, barW)
  /\ UNCHANGED <<svars, barW, barP, barPrevP, barPrevOut>>

\* a second call with the same width and another percentage
BarRenderNext ==
  /\ barOut # <<>> /\ barPrevOut = <<>>
  /\ \E p \in Percents :
       /\ barP' = p
       /\ barOut' = make_that_bar(p, barW)
  /\ barPrevP' = barP
  /\ barPrevOut' = barOut
  /\ UNCHANGED <<svars, barW>>

NextBar == BarRender \/ BarRenderNext

SpecBar == InitBar /\ [][NextBar]_vars

(* ------------------------------- properties --------------------------- *)
Backups == exists \ {0}

RECURSIVE ConcatFrom(_)
\* the files read in the order K, K-1, ..., 1, active
ConcatFrom(i) == IF i = 0 THEN data[0] ELSE data[i] \o ConcatFrom(i - 1)

RECURSIVE Expand(_)
\* the bytes of a sequence of records
Expand(ids) == IF ids = <<>> THEN <<>> ELSE Bytes(Head(ids)) \o Expand(Tail(ids))

IdsOfKind(kind) == {id \in 1..Len(recs) : recs[id].kind = kind}

\* the logger call made last has returned with its record in the file
AfterAppend == hpc = "idle" /\ written # <<>> /\ written[Len(written)] = Len(recs)

\* the backups are exactly the generations 1..m with m = min(rollovers, K) <= K;
\* a higher generation holds older records than a lower one and generation 1
\* older records than the active file; nothing is discarded during the first K
\* rollovers, and once more than K rollovers were made the records discarded
\* are older than everything kept
GenerationsInOrder ==
  LET m == Cardinality(Backups) IN
    /\ Backups = 1..m
    /\ m <= BACKUP_COUNT
    /\ m = Min2(rotations, BACKUP_COUNT)
    /\ \A i \in Backups : data[i] # <<>>
    /\ \A i \in exists, j \in exists :
         i > j => \A a \in IdsOf(data[i]), b \in IdsOf(data[j]) : a < b
    /\ rotations <= BACKUP_COUNT => discarded = {}
    /\ rotations > BACKUP_COUNT =>
         /\ discarded # {}
         /\ \A f \in exists : \A a \in discarded, b \in IdsOf(data[f]) : a < b

\* C1: after every append the backups are exactly the generations 1..m, m <= K,
\* without a gap, generation 1 the most recently rotated-out content and the
\* highest generation the oldest, and a rollover made with K backups discards
\* the content of generation K.
C1_Generations == AfterAppend => GenerationsInOrder

\* what is left of C1 in the code: the same, for the runs in which no doRollover
\* was cut short by a KeyboardInterrupt or by an OSError
GenerationsUnlessCut == (hpc = "idle" /\ ~aborted) => GenerationsInOrder

GenerationsReached ==
  /\ hpc = "idle" /\ ~aborted /\ rotations > BACKUP_COUNT
  /\ Backups = 1..BACKUP_COUNT /\ discarded # {} /\ data[0] # <<>>

C3_NeverSplit ==
  \A k \in 1..Len(written) :
    LET id == written[k] IN
      id \notin discarded =>
        \E f \in exists :
          /\ \E at \in 1..(Len(data[f]) - recs[id].len + 1) :
               SubSeq(data[f], at, at + recs[id].len - 1) = Bytes(id)
          /\ Cardinality({x \in 1..Len(data[f]) : data[f][x] = id}) = recs[id].len
          /\ \A g \in Files \ {f} : id \notin IdsOf(data[g])

C3_Witness ==
  /\ Cardinality(Backups) >= 2 /\ Len(data[0]) >= 4
  /\ Cardinality(IdsOf(data[0])) = 2 /\ Cardinality(IdsOf(data[1])) = 2

\* the ids of the "Monitoring stopped by user." records
Stopped == IdsOfKind("stopped")

\* the one stopped record is in the file, once, after every other record written
StoppedLast ==
  /\ Cardinality(Stopped) = 1
  /\ written # <<>>
  /\ written[Len(written)] \in Stopped
  /\ Cardinality({k \in 1..Len(written) : written[k] \in Stopped}) = 1
  /\ LET id == written[Len(written)] IN
       /\ Len(data[0]) >= recs[id].len
       /\ SubSeq(data[0], Len(data[0]) - recs[id].len + 1, Len(data[0])) = Bytes(id)

\* C4 as stated: a run ended by an interrupt raised anywhere in the sampling loop
\* has exactly one stopped record in the log, after the last sampled record, and
\* its terminal output ends with a newline.
C4_StoppedOnce ==
  (pc = "done" /\ interrupted = "running") => (StoppedLast /\ term = "nl")

\* C4 amended: a run ended by an interrupt raised anywhere in the sampling loop
\* makes exactly one logger call for the stopped record and ends its terminal
\* output with a newline; the record is in the log once, after every other
\* record, unless its own emit met an OSError, and then it is not in the log.
C4_StoppedOnceUnlessIOError ==
  (pc = "done" /\ interrupted = "running") =>
    /\ term = "nl"
    /\ Cardinality(Stopped) = 1
    /\ Stopped \cap lost = {} => StoppedLast
    /\ Stopped \cap lost # {} => \A k \in 1..Len(written) : written[k] \notin Stopped

C4_Witness ==
  /\ pc = "done" /\ interrupted = "running" /\ intAt = "write"
  /\ StoppedLast /\ term = "nl" /\ renders >= 1
  /\ \E k \in 1..Len(written) : recs[written[k]].kind = "tick"

\* C5: a run ended by an interrupt in the sampling loop exits with status 0, a
\* run ended by an error exits with a status other than 0.
C5_ExitCodes ==
  pc = "done" =>
    /\ (interrupted = "running" /\ failedAt = "no") => exitCode = 0
    /\ failedAt # "no" => exitCode # 0

\* C6: once the emit of a tick's record has failed with an I/O error the driver
\* is no longer in the sampling loop: the failure has taken it to the error path.
C6_SinkFailureFatal ==
  (\E id \in lost : recs[id].kind = "tick") =>
    (pc \notin RunningPcs /\ failedAt # "no")

\* the glyphs between the brackets of a bar string, and how many are filled
Glyphs(out) == SubSeq(out, 2, Len(out) - 4)
Filled(out) == Cardinality({k \in 1..Len(Glyphs(out)) : Glyphs(out)[k] = FILLED_CHAR})

\* C7: the bracketed section of make_that_bar(percent, width) has exactly width
\* glyphs: floor(width * clamp(percent, 0, 100) / 100) filled ones, then empty
\* ones only; all empty at 0 percent, all filled at 100 percent.
C7_BarShape ==
  barOut # <<>> =>
    LET g == Glyphs(barOut)
        c == IF barP < 0 THEN 0 ELSE IF barP > 10000 THEN 10000 ELSE barP
        n == (barW * c) \div 10000
    IN  /\ barOut[1] = "[" /\ barOut[Len(barOut) - 3] = "]"
        /\ Len(g) = barW
        /\ \A k \in 1..Len(g) : g[k] = IF k <= n THEN FILLED_CHAR ELSE EMPTY_CHAR
        /\ barP = 0 => \A k \in 1..Len(g) : g[k] = EMPTY_CHAR
        /\ barP = 10000 => \A k \in 1..Len(g) : g[k] = FILLED_CHAR

C7_Witness ==
  /\ barOut # <<>> /\ barW = BAR_WIDTH /\ barP = 3750
  /\ Filled(barOut) = 13 /\ Len(Glyphs(barOut)) = BAR_WIDTH

\* C8: for one width, a call with a percentage at least as large shows at least
\* as many filled glyphs.
C8_Monotone ==
  (barPrevOut # <<>> /\ barPrevP <= barP) => Filled(barPrevOut) <= Filled(barOut)

C8_Witness ==
  /\ barPrevOut # <<>> /\ barW = BAR_WIDTH /\ barPrevP < barP
  /\ Filled(barPrevOut) < Filled(barOut) /\ Filled(barPrevOut) > 0

\* C9: the whole string (bar and number) for a percentage below 0 is the string
\* for 0, and the whole string for a percentage above 100 is the string for 100.
C9_ClampedWhole ==
  barPrevOut # <<>> =>
    /\ (barPrevP < 0 /\ barP = 0) => barPrevOut = barOut
    /\ (barPrevP > 10000 /\ barP = 10000) => barPrevOut = barOut

C9_Witness ==
  /\ barPrevOut # <<>> /\ barW = BAR_WIDTH
  /\ barPrevP = -125 /\ barP = 0 /\ barPrevOut = barOut

\* C10: a run ended by an error of the warm-up call exits with a status other
\* than 0, has made no tick, and leaves the log file created and empty.
C10_WarmUpFailure ==
  (pc = "done" /\ failedAt = "warmup") =>
    /\ exitCode # 0
    /\ IdsOfKind("tick") = {}
    /\ 0 \in exists /\ data[0] = <<>> /\ Backups = {}

\* every record of the model is shorter than the size limit
RecordsShort == \A id \in 1..Len(recs) : recs[id].len < MAX_LOG_FILE_SIZE_BYTES

\* C11: with every record shorter than max_size_bytes, the active file is in
\* every state strictly smaller than max_size_bytes.
C11_ActiveBelowLimit == RecordsShort => Size(0) < MAX_LOG_FILE_SIZE_BYTES

C11_Witness ==
  /\ RecordsShort /\ hpc = "idle" /\ rotations >= 2
  /\ Size(0) = MAX_LOG_FILE_SIZE_BYTES - 1
  /\ Cardinality(IdsOf(data[0])) = 2

\* the steps of doRollover after the stream was closed
RolloverSteps == {"shift_rm", "shift_mv", "rot_rm", "rot_mv", "open"}

\* C12: an interrupt of the sampling loop is never acted upon inside a rotation
\* (the write itself is one call): when the shutdown logic runs, a rotation that
\* was in progress when the interrupt arrived has run to completion.
C12_InterruptAtTickBoundary ==
  interrupted = "running" => intAt \notin RolloverSteps

\* C13: initialization constructs the sink, makes exactly one warm-up call and
\* only then appends the "started" record: a log that holds the "started"
\* record belongs to a run whose warm-up call was made, the warm-up precedes the
\* first sample, and "started" is appended once, before every tick record.
C13_InitOrder ==
  /\ warmups <= 1
  /\ ticks > 0 => warmups = 1
  /\ Cardinality(IdsOfKind("started")) <= 1
  /\ \A s \in IdsOfKind("started"), t \in IdsOfKind("tick") : s < t
  /\ (\E k \in 1..Len(written) : written[k] \in IdsOfKind("started")) => warmups = 1

\* the tick records whose append raised inside the sink
LostTicks == {id \in lost : recs[id].kind = "tick"}

\* what the Failed path leaves behind: one error record, appended last unless
\* its own append failed, no stopped record, the terminal on a fresh line, and
\* no tick after the failing one
FailedOutcome ==
  /\ Cardinality(IdsOfKind("error")) = 1
  /\ \A e \in IdsOfKind("error") :
       /\ e \in lost \/ (written # <<>> /\ written[Len(written)] = e)
       /\ \A t \in IdsOfKind("tick") : t < e
       /\ \A t \in LostTicks : \A u \in IdsOfKind("tick") : u <= t
  /\ Stopped = {}
  /\ term = "nl"

\* C14: a run in which a tick failed with a non-interrupt error (the sampling
\* raised, or the append of the tick's record raised) ends through Failed: one
\* error record, the terminal on a fresh line, no stopped record, no further tick.
C14_TickErrorFails ==
  (pc = "done" /\ (failedAt = "sample" \/ LostTicks # {})) => FailedOutcome

\* the process has ended (every path: return from watch_and_log, uncaught
\* exception of setup or warm-up, uncaught KeyboardInterrupt)
Terminated == pc = "done"

\* C15 as stated: the sink opens the log file handle once in a run and has
\* released it when the process has terminated.
C15_HandleOpenedOnce == opens <= 1 /\ (Terminated => ~stream)

\* the handle changes only inside the sink: in its construction, in an emit,
\* or in its close at shutdown
OwnedBySink ==
  stream' # stream => (pc \in {"setup", "atexit"} \/ hpc # "idle")

\* C15 (amended): the sink holds at most one open handle at a time, opening a
\* new one after each rollover; only the sink opens or closes it; and on every
\* path into Terminated every handle it opened has been closed.
C15_HandleReleased ==
  /\ [](/\ opens - closes = (IF stream THEN 1 ELSE 0)
        /\ Terminated => (~stream /\ closes = opens))
  /\ [][OwnedBySink]_vars

C15_Witness ==
  /\ Terminated /\ interrupted = "running"
  /\ rotations >= 1 /\ opens >= 2 /\ closes = opens /\ ~stream

\* a tick has just ended with its sleep; the next iteration has not begun
TickEnded == pc = "sample" /\ ticks >= 1

\* start-to-start time of the tick that has just ended
Period == elapsed + sleptFor

\* C16 as stated: at the end of every tick the driver sleeps for
\* max(0, interval - elapsed), so the period of a tick whose work took no longer
\* than the interval equals the interval.
C16_SleepsRemainder ==
  TickEnded => /\ sleptFor = Max2(0, Interval - elapsed)
               /\ elapsed <= Interval => Period = Interval

\* C16 (amended): at the end of every tick the driver sleeps for the whole
\* configured interval, whatever the tick's work took, so the period of a tick
\* is the interval plus the time of its work: never shorter than the interval
\* and equal to it only when the work took no time.
C16_SleepsFullInterval ==
  TickEnded => /\ sleptFor = Interval
               /\ Period >= Interval
               /\ (Period = Interval) <=> (elapsed = 0)

C16_Witness ==
  /\ TickEnded /\ ticks >= 2
  /\ elapsed > 0 /\ elapsed < Interval
  /\ sleptFor = Interval /\ Period > Interval

\* the ids of the records that have a byte in some file of the log directory
IdsOnDisk(d) == UNION {IdsOf(d[f]) : f \in Files}

\* a step taken after the interrupt of the loop: no new tick, no new gauge
\* line, no logger call and no append other than that of the one stopped record
QuietAfterInterrupt ==
  interrupted = "running" =>
    /\ ticks' = ticks /\ renders' = renders /\ display' = display
    /\ recs' # recs =>
         /\ recs' = Append(recs, recs'[Len(recs')])
         /\ recs'[Len(recs')].kind = "stopped"
         /\ Stopped = {}
    /\ written' # written =>
         /\ written' = Append(written, Len(recs))
         /\ recs[Len(recs)].kind = "stopped"
    /\ IdsOnDisk(data') \subseteq IdsOnDisk(data) \cup Stopped
    /\ Terminated => data' = data

\* C17: the sleep can be interrupted, and once the interrupt has been delivered
\* during Running no further sample record is appended and no further gauge
\* line is rendered; the only record appended afterwards is the stopped record,
\* and nothing is appended once the run has terminated.
C17_NothingAfterInterrupt == [][QuietAfterInterrupt]_vars

C17_Witness ==
  /\ Terminated /\ interrupted = "running" /\ intAt = "sleep"
  /\ ticks >= 2 /\ renders = ticks
  /\ StoppedLast

\* the "Monitoring started." record is in the log
StartedAppended == \E k \in 1..Len(written) : recs[written[k]].kind = "started"

\* the positions in the log of the closing records (stopped or error)
ClosingAt == {k \in 1..Len(written) : recs[written[k]].kind \in {"stopped", "error"}}

\* C18: a run that appended "Monitoring started." and then terminated, by
\* interrupt or by error at any point after that append, has appended exactly
\* one closing record (stopped or error, never both), and it is the last record
\* of the run in the log.
C18_ClosedOnce ==
  (Terminated /\ StartedAppended /\ (interrupted # "no" \/ failedAt # "no"))
    => ClosingAt = {Len(written)}

====
